---- MODULE Spec2Model ----
(***************************************************************************)
(* Model of the Stringified JSON Editor extension (src/src/extension.ts).  *)
(*                                                                         *)
(* Text is a sequence of one-character strings.  The source file holds two *)
(* copies of the extension: lines 1-249 (variant 1) and lines 251-519      *)
(* (variant 2).  They differ in the selection path of getTarget and in the *)
(* fallback of the write-back conversion; the variable `variant` says      *)
(* which copy is the one that was activated.                               *)
(***************************************************************************)
EXTENDS Integers, Sequences, FiniteSets, Bags, TLC

(***************************************************************************)
(* Characters                                                              *)
(***************************************************************************)
QUOTE == "\""
BSLASH == "\\"
NEWLINE == "\n"
TAB == "\t"
SPACE == " "

Digits == <<"0", "1", "2", "3", "4", "5", "6", "7", "8", "9">>

\* String.prototype.trim / JSON whitespace within the model's alphabet
IsSpace(c) == c \in {SPACE, NEWLINE, TAB}

\* control characters (code unit < 0x20) within the model's alphabet
IsControl(c) == c \in {NEWLINE, TAB}

IsDigit(c) == \E d \in 1..10 : Digits[d] = c

DigitVal(c) == (CHOOSE d \in 1..10 : Digits[d] = c) - 1

(***************************************************************************)
(* String primitives of JavaScript                                         *)
(***************************************************************************)
\* s.startsWith(p) at 1-based position i
MatchesAt(s, i, p) ==
  /\ i + Len(p) - 1 <= Len(s)
  /\ \A j \in 1..Len(p) : s[i + j - 1] = p[j]

startsWith(s, p) == MatchesAt(s, 1, p)

endsWith(s, p) == Len(p) <= Len(s) /\ MatchesAt(s, Len(s) - Len(p) + 1, p)

\* s.substring(a, b) with 0-based a (inclusive) and b (exclusive)
substring(s, a, b) == SubSeq(s, a + 1, b)

\* s.slice(a) with 0-based a
sliceFrom(s, a) == SubSeq(s, a + 1, Len(s))

\* s.replace(/p/g, r) for a literal, non-empty pattern p: leftmost matches,
\* scanning resumes after each replaced occurrence
RECURSIVE ReplaceAllFrom(_, _, _, _)
ReplaceAllFrom(s, i, p, r) ==
  IF i > Len(s) THEN <<>>
  ELSE IF MatchesAt(s, i, p) THEN r \o ReplaceAllFrom(s, i + Len(p), p, r)
  ELSE <<s[i]>> \o ReplaceAllFrom(s, i + 1, p, r)

ReplaceAll(s, p, r) == ReplaceAllFrom(s, 1, p, r)

\* s.replace(/^"/, '')
StripLeadingQuote(s) == IF startsWith(s, <<QUOTE>>) THEN sliceFrom(s, 1) ELSE s

\* s.replace(/"$/, '')
StripTrailingQuote(s) ==
  IF endsWith(s, <<QUOTE>>) THEN SubSeq(s, 1, Len(s) - 1) ELSE s

RECURSIVE TrimLeft(_)
TrimLeft(s) ==
  IF s # <<>> /\ IsSpace(s[1]) THEN TrimLeft(Tail(s)) ELSE s

RECURSIVE TrimRight(_)
TrimRight(s) ==
  IF s # <<>> /\ IsSpace(s[Len(s)]) THEN TrimRight(SubSeq(s, 1, Len(s) - 1)) ELSE s

trim(s) == TrimRight(TrimLeft(s))

(***************************************************************************)
(* JSON values.  Every value is a record of one shape:                     *)
(*   t: kind, n: number, s: string content, k: keys, a: elements/members.  *)
(***************************************************************************)
JNull == [t |-> "null", n |-> 0, s |-> <<>>, k |-> <<>>, a |-> <<>>]
JTrue == [t |-> "true", n |-> 0, s |-> <<>>, k |-> <<>>, a |-> <<>>]
JFalse == [t |-> "false", n |-> 0, s |-> <<>>, k |-> <<>>, a |-> <<>>]
JNum(n) == [t |-> "num", n |-> n, s |-> <<>>, k |-> <<>>, a |-> <<>>]
JStr(s) == [t |-> "str", n |-> 0, s |-> s, k |-> <<>>, a |-> <<>>]
JArr(a) == [t |-> "arr", n |-> 0, s |-> <<>>, k |-> <<>>, a |-> a]
JObj(k, a) == [t |-> "obj", n |-> 0, s |-> <<>>, k |-> k, a |-> a]

ParseFail == [ok |-> FALSE, v |-> JNull, i |-> 0]
ParseOk(v, i) == [ok |-> TRUE, v |-> v, i |-> i]

(***************************************************************************)
(* JSON.parse: numbers are integers (the model's texts hold no fraction or *)
(* exponent), string escapes are \" \\ \/ \n \t (no \u in the texts).      *)
(***************************************************************************)
RECURSIVE SkipWs(_, _)
SkipWs(s, i) ==
  IF i <= Len(s) /\ IsSpace(s[i]) THEN SkipWs(s, i + 1) ELSE i

\* the string content from position i (just after the opening quote)
RECURSIVE ParseString(_, _, _)
ParseString(s, i, acc) ==
  IF i > Len(s) THEN ParseFail
  ELSE IF s[i] = QUOTE THEN ParseOk(JStr(acc), i + 1)
  ELSE IF s[i] = BSLASH THEN
    IF i + 1 > Len(s) THEN ParseFail
    ELSE IF s[i + 1] \in {QUOTE, BSLASH, "/"}
      THEN ParseString(s, i + 2, Append(acc, s[i + 1]))
    ELSE IF s[i + 1] = "n" THEN ParseString(s, i + 2, Append(acc, NEWLINE))
    ELSE IF s[i + 1] = "t" THEN ParseString(s, i + 2, Append(acc, TAB))
    ELSE ParseFail
  ELSE IF IsControl(s[i]) THEN ParseFail
  ELSE ParseString(s, i + 1, Append(acc, s[i]))

RECURSIVE ParseDigits(_, _, _)
ParseDigits(s, i, acc) ==
  IF i <= Len(s) /\ IsDigit(s[i])
  THEN ParseDigits(s, i + 1, 10 * acc + DigitVal(s[i]))
  ELSE ParseOk(JNum(acc), i)

\* -?(0|[1-9][0-9]*)
ParseNumber(s, i) ==
  LET neg == s[i] = "-"
      j == IF neg THEN i + 1 ELSE i
  IN IF j > Len(s) \/ ~IsDigit(s[j]) THEN ParseFail
     ELSE IF s[j] = "0" THEN ParseOk(JNum(0), j + 1)
     ELSE LET r == ParseDigits(s, j, 0)
          IN ParseOk(JNum(IF neg THEN 0 - r.v.n ELSE r.v.n), r.i)

\* object member insertion: a repeated key keeps its place, the last value wins
AddMember(o, key, v) ==
  IF \E j \in 1..Len(o.k) : o.k[j] = key
  THEN LET j == CHOOSE j \in 1..Len(o.k) : o.k[j] = key
       IN JObj(o.k, [o.a EXCEPT ![j] = v])
  ELSE JObj(Append(o.k, key), Append(o.a, v))

RECURSIVE ParseValue(_, _)
RECURSIVE ParseElements(_, _, _)
RECURSIVE ParseMembers(_, _, _)

\* after '[' or ',' : an element, then ',' or ']'
ParseElements(s, i, acc) ==
  LET r == ParseValue(s, i)
      j == SkipWs(s, r.i)
  IN IF ~r.ok \/ j > Len(s) THEN ParseFail
     ELSE IF s[j] = "," THEN ParseElements(s, j + 1, Append(acc, r.v))
     ELSE IF s[j] = "]" THEN ParseOk(JArr(Append(acc, r.v)), j + 1)
     ELSE ParseFail

\* after '{' or ',' : "key" : value, then ',' or '}'
ParseMembers(s, i, acc) ==
  LET j == SkipWs(s, i)
  IN IF j > Len(s) \/ s[j] # QUOTE THEN ParseFail
     ELSE LET key == ParseString(s, j + 1, <<>>)
              c == SkipWs(s, key.i)
          IN IF ~key.ok \/ c > Len(s) \/ s[c] # ":" THEN ParseFail
             ELSE LET r == ParseValue(s, c + 1)
                      e == SkipWs(s, r.i)
                  IN IF ~r.ok \/ e > Len(s) THEN ParseFail
                     ELSE IF s[e] = ","
                       THEN ParseMembers(s, e + 1, AddMember(acc, key.v.s, r.v))
                     ELSE IF s[e] = "}"
                       THEN ParseOk(AddMember(acc, key.v.s, r.v), e + 1)
                     ELSE ParseFail

ParseValue(s, i0) ==
  LET i == SkipWs(s, i0)
  IN IF i > Len(s) THEN ParseFail
     ELSE IF s[i] = QUOTE THEN ParseString(s, i + 1, <<>>)
     ELSE IF s[i] = "[" THEN
       LET j == SkipWs(s, i + 1)
       IN IF j <= Len(s) /\ s[j] = "]" THEN ParseOk(JArr(<<>>), j + 1)
          ELSE ParseElements(s, i + 1, <<>>)
     ELSE IF s[i] = "{" THEN
       LET j == SkipWs(s, i + 1)
       IN IF j <= Len(s) /\ s[j] = "}" THEN ParseOk(JObj(<<>>, <<>>), j + 1)
          ELSE ParseMembers(s, i + 1, JObj(<<>>, <<>>))
     ELSE IF MatchesAt(s, i, <<"t", "r", "u", "e">>) THEN ParseOk(JTrue, i + 4)
     ELSE IF MatchesAt(s, i, <<"f", "a", "l", "s", "e">>) THEN ParseOk(JFalse, i + 5)
     ELSE IF MatchesAt(s, i, <<"n", "u", "l", "l">>) THEN ParseOk(JNull, i + 4)
     ELSE IF s[i] = "-" \/ IsDigit(s[i]) THEN ParseNumber(s, i)
     ELSE ParseFail

\* JSON.parse(s): ok = FALSE stands for the SyntaxError it throws
JSONParse(s) ==
  LET r == ParseValue(s, 1)
  IN IF r.ok /\ SkipWs(s, r.i) = Len(s) + 1 THEN r ELSE ParseFail

(***************************************************************************)
(* JSON.stringify(v) and JSON.stringify(v, null, 2)                        *)
(***************************************************************************)
\* QuoteJSONString: the escapes of one character
EscapeChar(c) ==
  IF c = QUOTE THEN <<BSLASH, QUOTE>>
  ELSE IF c = BSLASH THEN <<BSLASH, BSLASH>>
  ELSE IF c = NEWLINE THEN <<BSLASH, "n">>
  ELSE IF c = TAB THEN <<BSLASH, "t">>
  ELSE <<c>>

RECURSIVE EscapeBody(_)
EscapeBody(s) ==
  IF s = <<>> THEN <<>> ELSE EscapeChar(s[1]) \o EscapeBody(Tail(s))

QuoteString(s) == <<QUOTE>> \o EscapeBody(s) \o <<QUOTE>>

RECURSIVE NatToText(_)
NatToText(n) ==
  IF n < 10 THEN <<Digits[n + 1]>>
  ELSE NatToText(n \div 10) \o <<Digits[(n % 10) + 1]>>

NumToText(n) == IF n < 0 THEN <<"-">> \o NatToText(0 - n) ELSE NatToText(n)

RECURSIVE Spaces(_)
Spaces(n) == IF n <= 0 THEN <<>> ELSE <<SPACE>> \o Spaces(n - 1)

\* gap = 0: compact form; gap > 0: indented form, ind = current indentation
RECURSIVE Stringify(_, _, _)
RECURSIVE StringifyItems(_, _, _, _)

\* items j..Len of an array or object, separated by "," (and a line break)
StringifyItems(v, j, gap, ind) ==
  LET item == (IF v.t = "obj"
               THEN QuoteString(v.k[j]) \o <<":">> \o (IF gap > 0 THEN <<SPACE>> ELSE <<>>)
               ELSE <<>>)
              \o Stringify(v.a[j], gap, ind)
      lead == IF gap > 0 THEN <<NEWLINE>> \o Spaces(ind) ELSE <<>>
  IN IF j > Len(v.a) THEN <<>>
     ELSE lead \o item \o (IF j < Len(v.a) THEN <<",">> ELSE <<>>)
          \o StringifyItems(v, j + 1, gap, ind)

Stringify(v, gap, ind) ==
  IF v.t = "null" THEN <<"n", "u", "l", "l">>
  ELSE IF v.t = "true" THEN <<"t", "r", "u", "e">>
  ELSE IF v.t = "false" THEN <<"f", "a", "l", "s", "e">>
  ELSE IF v.t = "num" THEN NumToText(v.n)
  ELSE IF v.t = "str" THEN QuoteString(v.s)
  ELSE LET open == IF v.t = "arr" THEN "[" ELSE "{"
           close == IF v.t = "arr" THEN "]" ELSE "}"
       IN IF v.a = <<>> THEN <<open, close>>
          ELSE <<open>> \o StringifyItems(v, 1, gap, ind + gap)
               \o (IF gap > 0 THEN <<NEWLINE>> \o Spaces(ind) ELSE <<>>)
               \o <<close>>

\* JSON.stringify(v)
JSONStringify(v) == Stringify(v, 0, 0)

\* JSON.stringify(v, null, 2)
JSONStringifyPretty(v) == Stringify(v, 2, 0)

(***************************************************************************)
(* Target Locator: getTarget.  A document is one line of text; positions   *)
(* are 0-based columns on that line.  A selection is [start, end].         *)
(***************************************************************************)
NoTarget == [found |-> FALSE, body |-> <<>>, start |-> 0, end |-> 0]
Target(body, start, end) == [found |-> TRUE, body |-> body, start |-> start, end |-> end]

Sel(start, end) == [start |-> start, end |-> end]

positionEquals(a, b) == a = b

\* document.getText(range) on the one-line document
getText(text, start, end) == substring(text, start, end)

\* /"([^"\\]*(\\.[^"\\]*)*)"/ anchored at an opening quote: 1-based position
\* of the closing quote, scanning from position i, or 0 when the line ends
\* first (a backslash takes the next character with it)
RECURSIVE ClosingQuote(_, _)
ClosingQuote(lineText, i) ==
  IF i > Len(lineText) THEN 0
  ELSE IF lineText[i] = QUOTE THEN i
  ELSE IF lineText[i] = BSLASH THEN
    IF i + 1 > Len(lineText) THEN 0 ELSE ClosingQuote(lineText, i + 2)
  ELSE ClosingQuote(lineText, i + 1)

NoMatch == [found |-> FALSE, index |-> 0, length |-> 0, group |-> <<>>]

\* regex.exec(lineText) with lastIndex = from (0-based): the leftmost match
\* that starts at or after from
RECURSIVE RegexExec(_, _)
RegexExec(lineText, from) ==
  IF from >= Len(lineText) THEN NoMatch
  ELSE LET close == IF lineText[from + 1] = QUOTE
                    THEN ClosingQuote(lineText, from + 2) ELSE 0
       IN IF close > 0
          THEN [found |-> TRUE, index |-> from, length |-> close - from,
                group |-> SubSeq(lineText, from + 2, close - 1)]
          ELSE RegexExec(lineText, from + 1)

\* the caret path with the end of the match excluded from its span
RECURSIVE CaretLoopExclusive(_, _, _)
CaretLoopExclusive(lineText, character, lastIndex) ==
  LET match == RegexExec(lineText, lastIndex)
      start == match.index + 1
      end == start + Len(match.group)
  IN IF ~match.found THEN NoTarget
     ELSE IF character >= match.index /\ character < match.index + match.length
       THEN Target(match.group, start, end)
     ELSE CaretLoopExclusive(lineText, character, match.index + match.length)

\* the while loop of the caret path, resumed at lastIndex
RECURSIVE CaretLoop(_, _, _)
CaretLoop(lineText, character, lastIndex) ==
  LET match == RegexExec(lineText, lastIndex)
      start == match.index + 1
      end == start + Len(match.group)
  IN IF ~match.found THEN NoTarget
     ELSE IF character >= match.index /\ character <= match.index + match.length
       THEN Target(match.group, start, end)
     ELSE CaretLoop(lineText, character, match.index + match.length)

getTargetCaret(lineText, selection) == CaretLoop(lineText, selection.start, 0)

\* selection path of variant 1: surrounding quotes are dropped
getTargetSelectionV1(text, selection) ==
  LET t0 == getText(text, selection.start, selection.end)
      lead == startsWith(t0, <<QUOTE>>)
      t1 == IF lead THEN sliceFrom(t0, 1) ELSE t0
      start == IF lead THEN selection.start + 1 ELSE selection.start
      trail == endsWith(t1, <<QUOTE>>)
      t2 == IF trail THEN SubSeq(t1, 1, Len(t1) - 1) ELSE t1
      end == IF trail THEN selection.end - 1 ELSE selection.end
  IN Target(t2, start, end)

\* selection path of variant 2: the selection as it is
getTargetSelectionV2(text, selection) ==
  Target(getText(text, selection.start, selection.end), selection.start, selection.end)

getTarget(v, text, selection) ==
  IF ~positionEquals(selection.start, selection.end)
  THEN IF v = 1 THEN getTargetSelectionV1(text, selection)
       ELSE getTargetSelectionV2(text, selection)
  ELSE getTargetCaret(text, selection)

(***************************************************************************)
(* Escape Transcoder                                                       *)
(***************************************************************************)
\* selectedText after "Process escaped characters"
Unescape(body) ==
  ReplaceAll(ReplaceAll(StripTrailingQuote(StripLeadingQuote(body)),
                        <<BSLASH, QUOTE>>, <<QUOTE>>),
             <<BSLASH, BSLASH>>, <<BSLASH>>)

\* the jsonContent set before the parse attempt
ExtractFallback(body) == ReplaceAll(body, <<BSLASH, "n">>, <<NEWLINE>>)

\* extraction direction: the content of the editable copy
toEditable(body) ==
  LET r == JSONParse(Unescape(body))
  IN IF r.ok THEN JSONStringifyPretty(r.v) ELSE ExtractFallback(body)

\* the escaping of the canonical form, backslashes first
EscapeCanonical(s) ==
  ReplaceAll(ReplaceAll(s, <<BSLASH>>, <<BSLASH, BSLASH>>), <<QUOTE>>, <<BSLASH, QUOTE>>)

\* catch branch of variant 1
LiteralFallbackV1(text) ==
  LET escaped == JSONStringify(JObj(<< <<"s">> >>, <<JStr(text)>>))
  IN substring(escaped, 6, Len(escaped) - 2)

\* catch branch of variant 2
LiteralFallbackV2(text) ==
  JSONParse(JSONStringify(JObj(<< <<"c", "o", "n", "t", "e", "n", "t">> >>,
                               <<JStr(text)>>))).v.a[1].s

\* does the try branch of the write-back conversion throw
WriteBackParses(text) == JSONParse(trim(text)).ok

\* write-back direction: the text that replaces the source range
toLiteral(v, text) ==
  LET r == JSONParse(trim(text))
  IN IF r.ok THEN EscapeCanonical(JSONStringify(r.v))
     ELSE IF v = 1 THEN LiteralFallbackV1(text)
     ELSE LiteralFallbackV2(trim(text))

(***************************************************************************)
(* Host editor: editBuilder.replace(range, text) on the one-line document; *)
(* the host clamps a range that reaches past the end of the text.          *)
(***************************************************************************)
Min(a, b) == IF a <= b THEN a ELSE b

ReplaceRange(text, start, end, new) ==
  LET a == Min(start, Len(text))
      b == Min(end, Len(text))
  IN SubSeq(text, 1, a) \o new \o SubSeq(text, b + 1, Len(text))

(***************************************************************************)
(* Inputs of the text pipeline                                             *)
(***************************************************************************)
\* JSON values embedded as string literals
Values ==
  { JNum(1), JNull, JStr(<<"a">>), JStr(<<>>), JArr(<<JNum(1)>>),
    JObj(<< <<"n">> >>, <<JNum(1)>>),
    JObj(<< <<"a">> >>, <<JStr(<<QUOTE, BSLASH, NEWLINE>>)>>) }

\* the JSON string literal S that encodes the serialization of V
LiteralOf(V) == QuoteString(JSONStringify(V))

\* a host document line  {"k": S}
HostPrefix == <<"{", QUOTE, "k", QUOTE, ":", SPACE>>
Host(V) == HostPrefix \o LiteralOf(V) \o <<"}">>

HostLines == { Host(V) : V \in Values }

\* lines for the locator: {"a": "x", "b": "y"}, adjacent literals, a content
\* that ends with an escaped quote, non-JSON contents, an unterminated quote
LocatorLines ==
  { <<"{", QUOTE, "a", QUOTE, ":", SPACE, QUOTE, "x", QUOTE, ",", SPACE,
      QUOTE, "b", QUOTE, ":", SPACE, QUOTE, "y", QUOTE, "}">>,
    <<QUOTE, "a", QUOTE, QUOTE, "b", QUOTE>>,
    <<"[", QUOTE, "a", BSLASH, QUOTE, QUOTE, "]">>,
    <<QUOTE, "h", "i", QUOTE>>,
    <<"x", SPACE, QUOTE, "s", BSLASH, QUOTE, "h", BSLASH, QUOTE, SPACE, BSLASH, BSLASH, "n", QUOTE>>,
    <<"n", "o", QUOTE, "x">>,
    <<QUOTE, "1", QUOTE, SPACE, "=">> }

\* texts the user may leave in the editable copy
EditTexts ==
  { <<"h", "i", SPACE, QUOTE, "w", QUOTE>>,
    <<"a", BSLASH, "b">>,
    <<"x", NEWLINE, "y", TAB>>,
    <<SPACE, QUOTE>>,
    <<"[", "1">>,
    <<"{", QUOTE, "n", QUOTE, ":", SPACE, "2", "}", NEWLINE>>,
    <<QUOTE, "a", BSLASH, "n", QUOTE>> }

Carets(text) == { Sel(c, c) : c \in 0..Len(text) }

Ranges(text) == { Sel(a, b) : a \in 0..Len(text), b \in 0..Len(text) } \ 
                { r \in { Sel(a, b) : a \in 0..Len(text), b \in 0..Len(text) } : r.start > r.end }

\* variables of the text pipeline
VARIABLES variant, lineText, selection, stage, target, editable, edited,
          literal, written

textVars == <<lineText, selection, stage, target, editable, edited, literal, written>>

\* variables of the extension: the source document, Date.now() and whether a
\* command has read this value of it, the files of
\* os.tmpdir(), TempFileManager._tempFiles (with the position of the iterator
\* of deleteAllTempFiles), the open editable documents, the handlers that are
\* suspended on an await, whether dispose has run, and the number of user
\* events so far
VARIABLES doc, now, stamped, files, tempFiles, iter, openDocs, tasks, disposed,
          events

\* observations: replaces applied per registration, whether an editable
\* document was saved since it was opened, what the step just taken did, and
\* the entries deleteAllTempFiles started with and called deleteTempFile for
VARIABLES replaces, savedFlag, event, deleteAll

mgrVars == <<doc, now, stamped, files, tempFiles, iter, openDocs, tasks, disposed,
             events>>

obsVars == <<replaces, savedFlag, event, deleteAll>>

vars == <<variant, textVars, mgrVars, obsVars>>

(***************************************************************************)
(* Bounds and inputs of the extension model                                *)
(***************************************************************************)
\* Date.now() takes the values 1..MaxTime
MaxTime == 2

\* user events in one behaviour: command runs, edits, saves and closes of
\* editable documents, and the deactivation
MaxEvents == 3

\* a temporary file path is determined by the timestamp in its name
Paths == 1..MaxTime

\* source documents:  ["[1]"]  with one literal, whose body is JSON
ManagerLines ==
  { <<"[", QUOTE, "[", "1", "]", QUOTE, "]">> }

\* texts the user may type into an editable document
ManagerTexts ==
  { <<"a", SPACE, QUOTE, "b", QUOTE>> }

\* selections the command is run with: a caret anywhere on the line
CmdSelections(text) == Carets(text)

(***************************************************************************)
(* State of the extension                                                  *)
(***************************************************************************)
NoFile == [exists |-> FALSE, text |-> <<>>]
File(text) == [exists |-> TRUE, text |-> text]

Closed == [open |-> FALSE, text |-> <<>>]
Opened(text) == [open |-> TRUE, text |-> text]

\* TempFileInfo; originalUri is the one source document
TempFileInfo(filePath, start, end) == [filePath |-> filePath, start |-> start, end |-> end]

\* Map operations on _tempFiles, a sequence in insertion order
Has(m, p) == \E i \in 1..Len(m) : m[i].filePath = p
IndexOf(m, p) == CHOOSE i \in 1..Len(m) : m[i].filePath = p
Get(m, p) == m[IndexOf(m, p)]
MapSet(m, e) ==
  IF Has(m, e.filePath) THEN [m EXCEPT ![IndexOf(m, e.filePath)] = e] ELSE Append(m, e)
\* a delete that clears the Map
MapClear(m, p) == <<>>

MapDelete(m, p) ==
  IF Has(m, p)
  THEN SubSeq(m, 1, IndexOf(m, p) - 1) \o SubSeq(m, IndexOf(m, p) + 1, Len(m))
  ELSE m
Keys(m) == { m[i].filePath : i \in 1..Len(m) }

\* the Map iterator of deleteAllTempFiles after a delete: entries before it stay visited
IterAfterDelete(m, it, p) ==
  IF Has(m, p) /\ IndexOf(m, p) <= it THEN it - 1 ELSE it

\* a handler suspended on an await
Task(kind, pc, path, start, end, text) ==
  [kind |-> kind, pc |-> pc, path |-> path, start |-> start, end |-> end,
   text |-> text, lit |-> <<>>, applied |-> FALSE, warned |-> FALSE,
   unsaved |-> FALSE]

One(t) == SetToBag({t})

\* what the step just taken did: the handler it belongs to, the messages it
\* showed, and, when it ended a handler or a deleteTempFile call, the outcome
NoEvent ==
  [kind |-> "none", path |-> 0, msgs |-> {}, how |-> "", text |-> <<>>, lit |-> <<>>,
   applied |-> FALSE, warned |-> FALSE, closed |-> FALSE, unsaved |-> FALSE,
   deleted |-> FALSE, ok |-> FALSE, before |-> FALSE, after |-> FALSE,
   replaces |-> 0, done |-> FALSE, sel |-> Sel(0, 0)]

Event(kind, path, msgs) == [NoEvent EXCEPT !.kind = kind, !.path = path, !.msgs = msgs]

NoDeleteAll == [start |-> {}, calls |-> <<>>]

\* the extension right after activate()
MgrIdle(d) ==
  /\ doc = d
  /\ now = 1
  /\ stamped = FALSE
  /\ files = [p \in Paths |-> NoFile]
  /\ tempFiles = <<>>
  /\ iter = 0
  /\ openDocs = [p \in Paths |-> Closed]
  /\ tasks = EmptyBag
  /\ disposed = FALSE
  /\ events = 0
  /\ replaces = [p \in Paths |-> 0]
  /\ savedFlag = [p \in Paths |-> FALSE]
  /\ event = NoEvent
  /\ deleteAll = NoDeleteAll

TextIdle ==
  /\ lineText = <<>>
  /\ selection = Sel(0, 0)
  /\ stage = "off"
  /\ target = NoTarget
  /\ editable = <<>>
  /\ edited = FALSE
  /\ literal = <<>>
  /\ written = <<>>

Init ==
  /\ variant \in {1, 2}
  /\ TextIdle
  /\ \E d \in ManagerLines : MgrIdle(d)

(***************************************************************************)
(* deleteTempFile: the unlink and, when it succeeded, the Map delete.      *)
(* ok = FALSE is an unlink that rejects (always so when the file is gone). *)
(***************************************************************************)
UnlinkCan(p, ok) == ok => files[p].exists

FilesAfterUnlink(p, ok) == IF ok THEN [files EXCEPT ![p] = NoFile] ELSE files

MapAfterUnlink(p, ok) == IF ok THEN MapDelete(tempFiles, p) ELSE tempFiles

IterAfterUnlink(p, ok) == IF ok THEN IterAfterDelete(tempFiles, iter, p) ELSE iter

\* the event of a step in which a deleteTempFile(p) call returns
Deleted(e, p, ok) ==
  [e EXCEPT !.deleted = TRUE, !.ok = ok, !.before = Has(tempFiles, p),
            !.after = Has(MapAfterUnlink(p, ok), p)]

\* onDidCloseTextDocument listener for the document at path p
CloseListener(p) ==
  IF ~disposed /\ Has(tempFiles, p)
  THEN One([Task("close", "unlink", p, 0, 0, <<>>) EXCEPT !.unsaved = ~savedFlag[p]])
  ELSE EmptyBag

(***************************************************************************)
(* editJsonString command                                                  *)
(***************************************************************************)
\* the command without the return after the 'No JSON string found' message
EditJsonStringNoReturn ==
  /\ ~disposed
  /\ events < MaxEvents
  /\ events' = events + 1
  /\ \E sel \in CmdSelections(doc) :
       LET t == getTarget(variant, doc, sel)
       IN /\ event' = [Event("command", now, IF t.found THEN {} ELSE {"noTarget"})
                         EXCEPT !.sel = sel]
          /\ stamped' = TRUE
          /\ tasks' = tasks (+) One(Task("cmd", "write", now, t.start, t.end,
                                         toEditable(t.body)))
  /\ UNCHANGED <<variant, textVars, doc, now, files, tempFiles, iter, openDocs,
                 disposed, replaces, savedFlag, deleteAll>>

\* the command, run in the editor of the source document, up to the writeFile
\* of createTempFile
EditJsonString ==
  /\ ~disposed
  /\ events < MaxEvents
  /\ events' = events + 1
  /\ \E sel \in CmdSelections(doc) :
       LET t == getTarget(variant, doc, sel)
       IN IF ~t.found
          THEN /\ event' = [Event("command", 0, {"noTarget"}) EXCEPT !.sel = sel]
               /\ tasks' = tasks
               /\ stamped' = stamped
          ELSE /\ event' = [Event("command", now, {}) EXCEPT !.sel = sel]
               /\ stamped' = TRUE
               /\ tasks' = tasks (+) One(Task("cmd", "write", now, t.start, t.end,
                                              toEditable(t.body)))
  /\ UNCHANGED <<variant, textVars, doc, now, files, tempFiles, iter, openDocs,
                 disposed, replaces, savedFlag, deleteAll>>

\* createTempFile with the entry set before the writeFile is awaited
CreateTempFileSetFirst ==
  \E t \in BagToSet(tasks) :
    /\ t.kind = "cmd" /\ t.pc = "write"
    /\ tempFiles' = MapSet(tempFiles, TempFileInfo(t.path, t.start, t.end))
    /\ replaces' = [replaces EXCEPT ![t.path] = 0]
    /\ \E ok \in BOOLEAN :
         IF ok
         THEN /\ files' = [files EXCEPT ![t.path] = File(t.text)]
              /\ tasks' = (tasks (-) One(t)) (+) One([t EXCEPT !.pc = "openTemp"])
              /\ event' = [Event("create", t.path, {}) EXCEPT
                              !.ok = TRUE, !.before = Has(tempFiles, t.path),
                              !.after = TRUE]
         ELSE /\ event' = Event("create", t.path, {"cmdError"})
              /\ tasks' = tasks (-) One(t)
              /\ \E opened \in BOOLEAN :
                   files' = IF opened THEN [files EXCEPT ![t.path] = File(<<>>)]
                            ELSE files
    /\ UNCHANGED <<variant, textVars, doc, now, stamped, iter, openDocs, disposed, events,
                   savedFlag, deleteAll>>

\* createTempFile after the writeFile: the entry is set, or the writeFile has
\* rejected and the command fails; a writeFile that rejects after it has
\* opened the file (flag 'w') leaves the file behind, truncated
CreateTempFile ==
  \E t \in BagToSet(tasks) :
    /\ t.kind = "cmd" /\ t.pc = "write"
    /\ \E ok \in BOOLEAN :
         IF ok
         THEN /\ files' = [files EXCEPT ![t.path] = File(t.text)]
              /\ tempFiles' = MapSet(tempFiles, TempFileInfo(t.path, t.start, t.end))
              /\ replaces' = [replaces EXCEPT ![t.path] = 0]
              /\ tasks' = (tasks (-) One(t)) (+) One([t EXCEPT !.pc = "openTemp"])
              /\ event' = [Event("create", t.path, {}) EXCEPT
                              !.ok = TRUE, !.before = Has(tempFiles, t.path),
                              !.after = TRUE]
         ELSE /\ event' = Event("create", t.path, {"cmdError"})
              /\ tasks' = tasks (-) One(t)
              /\ \E opened \in BOOLEAN :
                   files' = IF opened THEN [files EXCEPT ![t.path] = File(<<>>)]
                            ELSE files
              /\ UNCHANGED <<tempFiles, replaces>>
    /\ UNCHANGED <<variant, textVars, doc, now, stamped, iter, openDocs, disposed, events,
                   savedFlag, deleteAll>>

\* the command after openTextDocument / showTextDocument of the temporary file
OpenTempFile ==
  \E t \in BagToSet(tasks) :
    /\ t.kind = "cmd" /\ t.pc = "openTemp"
    /\ tasks' = tasks (-) One(t)
    /\ \E ok \in BOOLEAN :
         /\ ok => files[t.path].exists
         /\ IF ok
            THEN /\ openDocs' = [openDocs EXCEPT ![t.path] = Opened(files[t.path].text)]
                 /\ savedFlag' = IF openDocs[t.path].open THEN savedFlag
                                 ELSE [savedFlag EXCEPT ![t.path] = FALSE]
                 /\ event' = NoEvent
            ELSE /\ openDocs' = openDocs
                 /\ savedFlag' = savedFlag
                 /\ event' = Event("openTemp", t.path, {"cmdError"})
    /\ UNCHANGED <<variant, textVars, doc, now, stamped, files, tempFiles, iter, disposed,
                   events, replaces, deleteAll>>

(***************************************************************************)
(* The user on an editable document                                        *)
(***************************************************************************)
UserEdit ==
  \E p \in Paths, text \in ManagerTexts :
    /\ openDocs[p].open
    /\ openDocs[p].text # text
    /\ events < MaxEvents
    /\ events' = events + 1
    /\ openDocs' = [openDocs EXCEPT ![p] = Opened(text)]
    /\ event' = NoEvent
    /\ UNCHANGED <<variant, textVars, doc, now, stamped, files, tempFiles, iter, tasks,
                   disposed, replaces, savedFlag, deleteAll>>

\* the document is saved; onDidSaveTextDocument runs saveToOriginalDocument up
\* to the await of openTextDocument
UserSave ==
  \E p \in Paths :
    /\ openDocs[p].open
    /\ events < MaxEvents
    /\ events' = events + 1
    /\ files' = [files EXCEPT ![p] = File(openDocs[p].text)]
    /\ savedFlag' = [savedFlag EXCEPT ![p] = TRUE]
    /\ tasks' = IF ~disposed /\ Has(tempFiles, p)
                THEN tasks (+) One(Task("save", "open", p, Get(tempFiles, p).start,
                                        Get(tempFiles, p).end, openDocs[p].text))
                ELSE tasks
    /\ event' = [Event("save", p, {}) EXCEPT !.before = ~disposed /\ Has(tempFiles, p)]
    /\ UNCHANGED <<variant, textVars, doc, now, stamped, tempFiles, iter, openDocs,
                   disposed, replaces, deleteAll>>

\* the document is closed; onDidCloseTextDocument starts deleteTempFile
UserClose ==
  \E p \in Paths :
    /\ openDocs[p].open
    /\ events < MaxEvents
    /\ events' = events + 1
    /\ openDocs' = [openDocs EXCEPT ![p] = Closed]
    /\ tasks' = tasks (+) CloseListener(p)
    /\ event' = [Event("close", p, {}) EXCEPT !.before = ~disposed /\ Has(tempFiles, p)]
    /\ UNCHANGED <<variant, textVars, doc, now, stamped, files, tempFiles, iter,
                   disposed, replaces, savedFlag, deleteAll>>

(***************************************************************************)
(* saveToOriginalDocument                                                  *)
(***************************************************************************)
\* the event of the step in which the save handler of task t ends
SaveEnd(t, how, msgs) ==
  [Event("saveEnd", t.path, msgs) EXCEPT
     !.how = how, !.text = t.text, !.applied = t.applied, !.warned = t.warned,
     !.lit = t.lit,
     !.closed = ~openDocs[t.path].open, !.after = Has(tempFiles, t.path)]

\* after openTextDocument / showTextDocument of the original document: the
\* conversion, then originalEditor.edit is called
SaveOpen ==
  \E t \in BagToSet(tasks) :
    /\ t.kind = "save" /\ t.pc = "open"
    /\ \E ok \in BOOLEAN :
         IF ok
         THEN LET warn == variant = 2 /\ ~WriteBackParses(t.text)
              IN /\ event' = IF warn THEN Event("saveStep", t.path, {"notJson"}) ELSE NoEvent
                 /\ tasks' = (tasks (-) One(t))
                             (+) One([t EXCEPT !.pc = "edit", !.warned = warn,
                                               !.lit = toLiteral(variant, t.text)])
         ELSE /\ event' = SaveEnd(t, "openFailed", {"saveFailed"})
              /\ tasks' = tasks (-) One(t)
    /\ UNCHANGED <<variant, textVars, doc, now, stamped, files, tempFiles, iter, openDocs,
                   disposed, events, replaces, savedFlag, deleteAll>>

\* originalEditor.edit settles: applied, not applied (false), or rejected
SaveEdit ==
  \E t \in BagToSet(tasks) :
    /\ t.kind = "save" /\ t.pc = "edit"
    /\ \E r \in {"applied", "refused", "rejected"} :
         /\ doc' = IF r = "applied"
                   THEN ReplaceRange(doc, t.start, t.end, t.lit)
                   ELSE doc
         /\ replaces' = IF r = "applied"
                        THEN [replaces EXCEPT ![t.path] = @ + 1] ELSE replaces
         /\ IF r = "rejected"
            THEN /\ event' = SaveEnd(t, "editRejected", {"saveError", "saveFailed"})
                 /\ tasks' = tasks (-) One(t)
            ELSE /\ event' = NoEvent
                 /\ tasks' = (tasks (-) One(t))
                             (+) One([t EXCEPT !.pc = "closeTabs", !.applied = (r = "applied")])
    /\ UNCHANGED <<variant, textVars, now, stamped, files, tempFiles, iter, openDocs, disposed,
                   events, savedFlag, deleteAll>>

\* tabGroups.close settles: the tab of the temporary file is closed (which
\* fires onDidCloseTextDocument), stays open, or the call rejects
SaveCloseTabs ==
  \E t \in BagToSet(tasks) :
    /\ t.kind = "save" /\ t.pc = "closeTabs"
    /\ \E r \in {"closed", "kept", "rejected"} :
         /\ openDocs' = IF r = "closed" THEN [openDocs EXCEPT ![t.path] = Closed]
                        ELSE openDocs
         /\ IF r = "rejected"
            THEN /\ event' = SaveEnd(t, "closeRejected", {"saveError", "saveFailed"})
                 /\ tasks' = tasks (-) One(t)
            ELSE /\ event' = NoEvent
                 /\ tasks' = ((tasks (-) One(t)) (+) One([t EXCEPT !.pc = "unlink"]))
                             (+) (IF r = "closed" /\ openDocs[t.path].open
                                  THEN CloseListener(t.path) ELSE EmptyBag)
    /\ UNCHANGED <<variant, textVars, doc, now, stamped, files, tempFiles, iter, disposed,
                   events, replaces, savedFlag, deleteAll>>

\* deleteTempFile of the save handler settles and the handler returns
SaveDelete ==
  \E t \in BagToSet(tasks) :
    /\ t.kind = "save" /\ t.pc = "unlink"
    /\ \E ok \in BOOLEAN :
         /\ UnlinkCan(t.path, ok)
         /\ files' = FilesAfterUnlink(t.path, ok)
         /\ tempFiles' = MapAfterUnlink(t.path, ok)
         /\ iter' = IterAfterUnlink(t.path, ok)
         /\ event' = Deleted(SaveEnd(t, "done", IF variant = 2 THEN {"updated"} ELSE {}),
                             t.path, ok)
    /\ tasks' = tasks (-) One(t)
    /\ UNCHANGED <<variant, textVars, doc, now, stamped, openDocs, disposed, events,
                   replaces, savedFlag, deleteAll>>

\* deleteTempFile started by the close listener settles
CloseDelete ==
  \E t \in BagToSet(tasks) :
    /\ t.kind = "close" /\ t.pc = "unlink"
    /\ \E ok \in BOOLEAN :
         /\ UnlinkCan(t.path, ok)
         /\ files' = FilesAfterUnlink(t.path, ok)
         /\ tempFiles' = MapAfterUnlink(t.path, ok)
         /\ iter' = IterAfterUnlink(t.path, ok)
         /\ event' = Deleted([Event("closeEnd", t.path, {}) EXCEPT
                                !.unsaved = t.unsaved, !.replaces = replaces[t.path]],
                             t.path, ok)
    /\ tasks' = tasks (-) One(t)
    /\ UNCHANGED <<variant, textVars, doc, now, stamped, openDocs, disposed, events, replaces, savedFlag, deleteAll>>

(***************************************************************************)
(* dispose and deleteAllTempFiles                                          *)
(***************************************************************************)
\* dispose: the listeners are disposed and deleteAllTempFiles runs up to the
\* unlink of the first entry
Dispose ==
  /\ ~disposed
  /\ events < MaxEvents
  /\ events' = events + 1
  /\ disposed' = TRUE
  /\ IF tempFiles = <<>>
     THEN /\ tasks' = tasks
          /\ iter' = 0
          /\ deleteAll' = NoDeleteAll
          /\ event' = [Event("deleteAll", 0, {}) EXCEPT !.done = TRUE]
     ELSE /\ tasks' = tasks (+) One(Task("dispose", "unlink", tempFiles[1].filePath,
                                         0, 0, <<>>))
          /\ iter' = 1
          /\ deleteAll' = [start |-> Keys(tempFiles), calls |-> <<tempFiles[1].filePath>>]
          /\ event' = NoEvent
  /\ UNCHANGED <<variant, textVars, doc, now, stamped, files, tempFiles, openDocs,
                 replaces, savedFlag>>

\* deleteAllTempFiles with a deleteTempFile that lets the unlink error escape:
\* the loop ends at the first failure
DeleteAllTempFilesStopOnFailure ==
  \E t \in BagToSet(tasks) :
    /\ t.kind = "dispose" /\ t.pc = "unlink"
    /\ \E ok \in BOOLEAN :
         /\ UnlinkCan(t.path, ok)
         /\ files' = FilesAfterUnlink(t.path, ok)
         /\ tempFiles' = MapAfterUnlink(t.path, ok)
         /\ LET it == IterAfterUnlink(t.path, ok)
                more == ok /\ it < Len(tempFiles')
            IN /\ event' = Deleted([Event("deleteAll", t.path,
                                          IF ok THEN {} ELSE {"disposeError"})
                                      EXCEPT !.done = ~more],
                                   t.path, ok)
               /\ IF more
                  THEN /\ iter' = it + 1
                       /\ tasks' = (tasks (-) One(t))
                                   (+) One([t EXCEPT !.path = tempFiles'[it + 1].filePath])
                       /\ deleteAll' = [deleteAll EXCEPT
                                          !.calls = Append(@, tempFiles'[it + 1].filePath)]
                  ELSE /\ iter' = it
                       /\ tasks' = tasks (-) One(t)
                       /\ deleteAll' = deleteAll
    /\ UNCHANGED <<variant, textVars, doc, now, stamped, openDocs, disposed, events, replaces, savedFlag>>

\* one deleteTempFile of the loop settles; the loop takes the next entry of
\* the Map or ends
DeleteAllTempFiles ==
  \E t \in BagToSet(tasks) :
    /\ t.kind = "dispose" /\ t.pc = "unlink"
    /\ \E ok \in BOOLEAN :
         /\ UnlinkCan(t.path, ok)
         /\ files' = FilesAfterUnlink(t.path, ok)
         /\ tempFiles' = MapAfterUnlink(t.path, ok)
         /\ LET it == IterAfterUnlink(t.path, ok)
                more == it < Len(tempFiles')
            IN /\ event' = Deleted([Event("deleteAll", t.path, {}) EXCEPT !.done = ~more],
                                   t.path, ok)
               /\ IF more
                  THEN /\ iter' = it + 1
                       /\ tasks' = (tasks (-) One(t))
                                   (+) One([t EXCEPT !.path = tempFiles'[it + 1].filePath])
                       /\ deleteAll' = [deleteAll EXCEPT
                                          !.calls = Append(@, tempFiles'[it + 1].filePath)]
                  ELSE /\ iter' = it
                       /\ tasks' = tasks (-) One(t)
                       /\ deleteAll' = deleteAll
    /\ UNCHANGED <<variant, textVars, doc, now, stamped, openDocs, disposed, events, replaces, savedFlag>>

\* Date.now() advances; an advance that no command sees before the next one
\* is the same as no advance
Tick ==
  /\ now < MaxTime
  /\ stamped
  /\ now' = now + 1
  /\ stamped' = FALSE
  /\ event' = NoEvent
  /\ UNCHANGED <<variant, textVars, doc, files, tempFiles, iter, openDocs, tasks,
                 disposed, events, replaces, savedFlag, deleteAll>>

Next ==
  \/ EditJsonString
  \/ CreateTempFile
  \/ OpenTempFile
  \/ UserEdit
  \/ UserSave
  \/ UserClose
  \/ SaveOpen
  \/ SaveEdit
  \/ SaveCloseTabs
  \/ SaveDelete
  \/ CloseDelete
  \/ Dispose
  \/ DeleteAllTempFiles
  \/ Tick

Spec == Init /\ [][Next]_vars


(***************************************************************************)
(* The text pipeline of one round trip: editJsonString command (getTarget, *)
(* extraction) and saveToOriginalDocument (conversion, replace), without   *)
(* the asynchronous steps in between.                                      *)
(***************************************************************************)
InitText ==
  /\ variant \in {1, 2}
  /\ \/ lineText \in HostLines /\ selection \in Carets(lineText)
     \/ lineText \in LocatorLines /\ selection \in Ranges(lineText)
  /\ stage = "idle"
  /\ target = NoTarget
  /\ editable = <<>>
  /\ edited = FALSE
  /\ literal = <<>>
  /\ written = lineText
  /\ MgrIdle(<<>>)

\* const target = getTarget(editor)
Locate ==
  /\ stage = "idle"
  /\ target' = getTarget(variant, lineText, selection)
  /\ stage' = IF target'.found THEN "located" ELSE "none"
  /\ UNCHANGED <<variant, lineText, selection, editable, edited, literal, written>>
  /\ UNCHANGED <<mgrVars, obsVars>>

\* the content handed to createTempFile
Extract ==
  /\ stage = "located"
  /\ editable' = toEditable(target.body)
  /\ stage' = "extracted"
  /\ UNCHANGED <<variant, lineText, selection, target, edited, literal, written>>
  /\ UNCHANGED <<mgrVars, obsVars>>

\* the user types in the editable copy
EditText ==
  /\ stage = "extracted"
  /\ ~edited
  /\ \E t \in EditTexts : editable' = t
  /\ edited' = TRUE
  /\ UNCHANGED <<variant, lineText, selection, stage, target, literal, written>>
  /\ UNCHANGED <<mgrVars, obsVars>>

\* the conversion and the replace of saveToOriginalDocument
WriteBack ==
  /\ stage = "extracted"
  /\ literal' = toLiteral(variant, editable)
  /\ written' = ReplaceRange(lineText, target.start, target.end, literal')
  /\ stage' = "written"
  /\ UNCHANGED <<variant, lineText, selection, target, editable, edited>>
  /\ UNCHANGED <<mgrVars, obsVars>>

NextText == Locate \/ Extract \/ EditText \/ WriteBack

SpecText == InitText /\ [][NextText]_vars

(***************************************************************************)
(* Properties of the text pipeline                                         *)
(***************************************************************************)
LineXY ==
  <<"{", QUOTE, "a", QUOTE, ":", SPACE, QUOTE, "x", QUOTE, ",", SPACE,
    QUOTE, "b", QUOTE, ":", SPACE, QUOTE, "y", QUOTE, "}">>

IsCaret(sel) == sel.start = sel.end

\* decoding a literal body as a JSON string: one layer of escaping undone
DecodeBody(body) == JSONParse(<<QUOTE>> \o body \o <<QUOTE>>)

\* the caret is on the literal S of the host line of V, quotes included
CaretInLiteral(V) ==
  /\ lineText = Host(V)
  /\ IsCaret(selection)
  /\ selection.start >= Len(HostPrefix)
  /\ selection.start <= Len(HostPrefix) + Len(LiteralOf(V)) - 1

\* C1: for every JSON value V embedded as a string literal S in a host line
\* and every caret on S, locate, toEditable and toLiteral of the unchanged
\* editable text give a literal body that decodes and parses to V.
C1_RoundTrip ==
  \A V \in Values :
    (CaretInLiteral(V) /\ stage = "written" /\ ~edited) =>
      LET d == DecodeBody(literal)
      IN /\ d.ok
         /\ JSONParse(d.v.s).ok
         /\ JSONParse(d.v.s).v = V

\* the matches regex.exec yields on a line, left to right
RECURSIVE MatchList(_, _)
MatchList(text, from) ==
  LET m == RegexExec(text, from)
  IN IF m.found THEN <<m>> \o MatchList(text, m.index + m.length) ELSE <<>>

\* the matches whose span [index, index + length] holds the column
Hits(text, c) ==
  LET ms == MatchList(text, 0)
  IN { k \in 1..Len(ms) : ms[k].index <= c /\ c <= ms[k].index + ms[k].length }

\* C7: with an empty selection the target is the first literal of the caret's
\* line whose span, both bounds included, holds the caret column; its body is
\* the content between the quotes and its range covers exactly that content;
\* with no such literal the result is none.
C7_CaretLocator ==
  (IsCaret(selection) /\ stage # "idle") =>
    LET ms == MatchList(lineText, 0)
        hits == Hits(lineText, selection.start)
    IN IF hits = {} THEN ~target.found /\ stage = "none"
       ELSE LET m == ms[CHOOSE k \in hits : \A j \in hits : k <= j]
            IN /\ target.found
               /\ target.start = m.index + 1
               /\ target.end = m.index + m.length - 1
               /\ target.body = getText(lineText, target.start, target.end)
               /\ lineText[target.start] = QUOTE
               /\ lineText[target.end + 1] = QUOTE
               /\ (lineText = LineXY /\ selection.start \in 6..9 => target.body = <<"x">>)
               /\ (lineText = LineXY /\ selection.start \in 16..19 => target.body = <<"y">>)

\* the caret is inside "y" of {"a": "x", "b": "y"} and the target is y
W_C7 ==
  /\ stage = "located"
  /\ lineText = LineXY
  /\ selection = Sel(17, 17)
  /\ target = Target(<<"y">>, 17, 18)

\* the selection covers a whole literal, quotes included, with some content
QuotedSpan(text, sel) ==
  /\ sel.end - sel.start > 2
  /\ text[sel.start + 1] = QUOTE
  /\ ClosingQuote(text, sel.start + 2) = sel.end

\* C8: selecting a literal with its quotes and selecting only its content give
\* the same target: the content as body and the content span as range.
C8_SelectionEquivalence ==
  (stage # "idle" /\ QuotedSpan(lineText, selection)) =>
    LET bare == getTarget(variant, lineText, Sel(selection.start + 1, selection.end - 1))
    IN /\ target = bare
       /\ target.body = getText(lineText, selection.start + 1, selection.end - 1)
       /\ target.start = selection.start + 1
       /\ target.end = selection.end - 1

\* C9: when the unescaped body does not parse, the editable text is the body
\* with every backslash-quote turned into a quote and every double backslash
\* into one backslash.
C9_FallbackUnescaped ==
  (stage = "extracted" /\ ~edited /\ ~JSONParse(Unescape(target.body)).ok) =>
    editable = ReplaceAll(ReplaceAll(target.body, <<BSLASH, QUOTE>>, <<QUOTE>>),
                          <<BSLASH, BSLASH>>, <<BSLASH>>)

HasSpecial(text) ==
  \E i \in 1..Len(text) : text[i] \in {QUOTE, BSLASH, NEWLINE, TAB}

\* C5: for a saved text that is not JSON and holds quotes, backslashes or
\* control characters, the literal body decodes to exactly that text and holds
\* no unescaped quote and no raw control character.
C5_FallbackDecodes ==
  (stage = "written" /\ ~WriteBackParses(editable) /\ HasSpecial(editable)) =>
    /\ DecodeBody(literal).ok
    /\ DecodeBody(literal).v.s = editable
    /\ ClosingQuote(literal \o <<QUOTE>>, 1) = Len(literal) + 1
    /\ \A i \in 1..Len(literal) : ~IsControl(literal[i])

(***************************************************************************)
(* Properties of the extension                                             *)
(***************************************************************************)
SaveEnded == event.kind = "saveEnd"

\* C2: when a save handler has finished, either the range was replaced, the
\* editable copy is closed and the entry is removed, or the replacement was
\* not applied and the entry is still registered.  Stated for the handlers
\* whose tab close and unlink succeeded.
C2_AllOrNothing ==
  (SaveEnded /\ event.how = "done" /\ event.closed /\ event.ok) =>
    \/ event.applied /\ ~event.after
    \/ ~event.applied /\ event.after

\* C3: when the close handler of a copy that was closed without a save has
\* finished, the entry is removed and no replace was applied for that copy.
C3_CloseCancels ==
  (event.kind = "closeEnd" /\ event.unsaved) =>
    ~event.after /\ event.replaces = 0

\* C4: a save of a text that is not JSON replaces the range by the text
\* encoded as an escaped plain string, shows a warning, and clears the entry.
\* Stated for the handlers whose edit and unlink succeeded.
C4_NonJsonSave ==
  (SaveEnded /\ event.how = "done" /\ event.applied /\ event.ok
     /\ ~WriteBackParses(event.text)) =>
    /\ event.lit = EscapeBody(event.text)
    /\ event.warned
    /\ ~event.after

\* C6: when deleteAllTempFiles has finished, the registry is empty and
\* deleteTempFile was called by it exactly once for each entry that was
\* registered when it started.
C6_CompleteAll ==
  (event.kind = "deleteAll" /\ event.done) =>
    /\ tempFiles = <<>>
    /\ \A p \in deleteAll.start :
         Cardinality({ i \in 1..Len(deleteAll.calls) : deleteAll.calls[i] = p }) = 1

\* C10: when a deleteTempFile(copyId) call has returned, copyId is absent from
\* the registry, whether or not the unlink succeeded.
C10_CompleteRemoves ==
  event.deleted => ~event.after

\* C11: every registration made by createTempFile uses a path that is not
\* registered at that moment, so no entry of a pending round trip is
\* overwritten.
C11_FreshCopyId ==
  (event.kind = "create" /\ event.ok) => ~event.before

\* C16: for every registration of a path the replace of the source range is
\* applied at most once, also when a second save is delivered while the first
\* save handler is suspended.
C16_NoOverlap ==
  \A p \in Paths : replaces[p] <= 1

\* C12: a run of the command with a caret that no string literal of the line
\* contains shows the 'No JSON string found' error and changes nothing: no
\* entry, no temporary file, no handler left running, the source unchanged.
C12_NoTargetFound ==
  [][ (EditJsonString /\ Hits(doc, event'.sel.start) = {}) =>
        /\ event'.msgs = {"noTarget"}
        /\ UNCHANGED <<doc, files, tempFiles, openDocs, tasks>> ]_vars

\* the command has just reported that the caret is on no literal
W_C12 ==
  /\ event.kind = "command"
  /\ event.msgs = {"noTarget"}
  /\ Hits(doc, event.sel.start) = {}
  /\ tempFiles = <<>>
  /\ tasks = EmptyBag
  /\ \A p \in Paths : ~files[p].exists

\* the entry of path p in the Map, if any
EntryOf(m, p) == IF Has(m, p) THEN <<Get(m, p)>> ELSE <<>>

\* C13: a save or close event of the document at path p, and every later step
\* of the handlers it started, leaves the entries of all other paths as they
\* are; when p is not registered the event changes neither the registry nor
\* the source document and starts no handler.
C13_OwnHandleOnly ==
  [][ \A p \in Paths :
        LET user == event'.kind \in {"save", "close"} /\ event'.path = p
            cont == \E t \in BagToSet(tasks) :
                      /\ t.kind \in {"save", "close"} /\ t.path = p
                      /\ CopiesIn(t, tasks') < CopiesIn(t, tasks)
        IN /\ (user \/ cont) =>
                \A q \in Paths \ {p} : EntryOf(tempFiles', q) = EntryOf(tempFiles, q)
           /\ (user /\ ~Has(tempFiles, p)) =>
                (tempFiles' = tempFiles /\ doc' = doc /\ tasks' = tasks) ]_vars

\* a save handler has removed its own entry while another path is registered
W_C13 ==
  /\ event.kind = "saveEnd"
  /\ event.deleted /\ event.ok /\ event.before
  /\ Len(tempFiles) = 1
  /\ tempFiles[1].filePath # event.path

\* C14: when the writeFile of createTempFile fails, the command shows an error
\* and ends: the registry and the source document are unchanged, no document
\* is opened and no handler of the command is left running.
C14_CreateFailureAborts ==
  [][ (event'.kind = "create" /\ ~event'.ok) =>
        /\ "cmdError" \in event'.msgs
        /\ tempFiles' = tempFiles
        /\ doc' = doc
        /\ openDocs' = openDocs
        /\ \A t \in BagToSet(tasks') : CopiesIn(t, tasks') <= CopiesIn(t, tasks)
        /\ \E t \in BagToSet(tasks) :
             t.kind = "cmd" /\ t.path = event'.path /\ tasks' = tasks (-) One(t) ]_vars

\* the writeFile of the only command has just failed
W_C14 ==
  /\ event.kind = "create" /\ ~event.ok
  /\ "cmdError" \in event.msgs
  /\ tempFiles = <<>>
  /\ tasks = EmptyBag
  /\ doc \in ManagerLines

\* C15: when the loop of deleteAllTempFiles has ended, deleteTempFile was
\* called for every entry it started with that is still registered, also
\* after a failed unlink of an earlier entry, and no error has escaped from
\* the loop.
C15_BestEffortShutdown ==
  (event.kind = "deleteAll" /\ event.done) =>
    /\ event.msgs = {}
    /\ \A p \in deleteAll.start :
         \/ \E i \in 1..Len(deleteAll.calls) : deleteAll.calls[i] = p
         \/ ~Has(tempFiles, p)

\* the unlink of the first entry failed and the loop went on to the second
W_C15 ==
  /\ event.kind = "deleteAll" /\ event.done
  /\ Len(deleteAll.calls) = 2
  /\ Has(tempFiles, deleteAll.calls[1])
  /\ files[deleteAll.calls[1]].exists
  /\ deleteAll.calls[2] # deleteAll.calls[1]

\* the body decodes as a JSON string to a text that is not JSON
NonJsonBody(body) ==
  DecodeBody(body).ok /\ ~JSONParse(DecodeBody(body).v.s).ok

\* C17: for a literal whose body is not JSON, opened with the caret on it and
\* saved without an edit, the literal body written back decodes to the same
\* string as the original body.
C17_NonJsonUnchanged ==
  (stage = "written" /\ ~edited /\ IsCaret(selection) /\ NonJsonBody(target.body)) =>
    /\ DecodeBody(literal).ok
    /\ DecodeBody(literal).v.s = DecodeBody(target.body).v.s

\* C18: between handler steps a path is registered exactly when its
\* temporary file exists.
C18_RegistryInStep ==
  \A p \in Paths : Has(tempFiles, p) <=> files[p].exists

====
